---- MODULE Spec2Model ----
(***************************************************************************)
(* Rusty-Golem: a supervisor that keeps one game-server process running    *)
(* inside a daily time window (src/main.rs).  The model follows the body   *)
(* of the loop in main(): one action per branch of a tick, plus the        *)
(* environment (the supervised process exiting) and the blocking wait of   *)
(* stop_server.  Time is in whole seconds; a time of day is 0..Day-1.      *)
(***************************************************************************)
EXTENDS Integers, Sequences, FiniteSets, TLC

VARIABLES
    start_time,        \* config.start_time, seconds after midnight
    end_time,          \* config.end_time, seconds after midnight
    clock,             \* what Local::now() returns next, seconds since day 0 00:00:00
    horizon,           \* the clock value after which the model takes no further tick
    pc,                \* "loop": at the top of the loop; "wait": blocked in child.wait()
    server_process,    \* Option<Child>: <<>> is None, <<c>> is Some(c)
    child,             \* the Child taken by the scheduled stop, while stop_server waits on it
    warned_10_min,
    warned_5_min,
    warned_1_min,
    crash_timestamps,  \* Vec<DateTime>: the watchdog history
    now,               \* the last tick's now
    is_running_time,   \* the last tick's window test
    is_alive,          \* the last tick's liveness result
    minutes_left,      \* the last tick's minutes_left, NoMinutes when it computed none
    events,            \* what the last tick did, in order
    orphans,           \* spawned processes still running whose handle was dropped
    wait_errors        \* how many more times try_wait() may return Err(_) in this run

vars == <<start_time, end_time, clock, horizon, pc, server_process, child,
          warned_10_min, warned_5_min, warned_1_min, crash_timestamps,
          now, is_running_time, is_alive, minutes_left, events, orphans,
          wait_errors>>

----------------------------------------------------------------------------
(* Program constants *)

PollSeconds == 10
CooldownSeconds == 60
CrashLimit == 3
RetainMinutes == 5
WarnFirst == 10
WarnSecond == 5
WarnLast == 1
MinutesPerDay == 24 * 60
Day == MinutesPerDay * 60

(* Bounds of the model *)

Span == 450            \* seconds of supervision explored after the supervisor starts
AliveSpan == 720       \* the same, for the runs in which the process never exits by itself
MaxStopDelay == 2      \* longest time, in seconds, the process takes to exit after "stop"
MaxTryWaitErrors == 1  \* how many times try_wait() may fail in one run

NoMinutes == 0 - 1

HM(h, m) == (h * 60 + m) * 60
HMS(h, m, s) == HM(h, m) + s

----------------------------------------------------------------------------
(* Pure parts of the loop body *)

CurrentTime(t) == t % Day

\* chrono::Duration::num_minutes: whole minutes, truncated toward zero
NumMinutes(secs) == IF secs >= 0 THEN secs \div 60 ELSE 0 - ((0 - secs) \div 60)

IsRunningTimeEndInclusive(current_time, s, e) ==
    IF s <= e
    THEN current_time >= s /\ current_time <= e
    ELSE current_time >= s \/ current_time < e

IsRunningTimeNoWrap(current_time, s, e) ==
    current_time >= s /\ current_time < e

IsRunningTime(current_time, s, e) ==
    IF s <= e
    THEN current_time >= s /\ current_time < e
    ELSE current_time >= s \/ current_time < e

MinutesLeft(current_time, s, e) ==
    IF s <= e
    THEN NumMinutes(e - current_time)
    ELSE IF current_time < e
         THEN NumMinutes(e - current_time)
         ELSE NumMinutes(e - current_time) + MinutesPerDay

RetainShortHorizon(ts, n) == SelectSeq(ts, LAMBDA t : NumMinutes(n - t) <= 2)

RetainAll(ts, n) == ts

Retain(ts, n) == SelectSeq(ts, LAMBDA t : NumMinutes(n - t) <= RetainMinutes)

TooManyCrashesStrict(ts) == Len(ts) > CrashLimit

TooManyCrashes(ts) == Len(ts) >= CrashLimit

RecordOnSuccessOnly(ts, n, ok) == IF ok THEN Append(ts, n) ELSE ts

\* crash_timestamps.push(now), in the Ok arm and in the Err arm of the spawn
Record(ts, n, ok) == Append(ts, n)

ResetWarningAlways(flag, ok) == FALSE

\* a warning flag after a spawn attempt: cleared in the Ok arm only
ResetWarning(flag, ok) == IF ok THEN FALSE ELSE flag

WarningDueAtOrBelow(ml, w10, w5, w1) ==
    IF ml <= WarnFirst /\ ~w10 THEN "say_10"
    ELSE IF ml <= WarnSecond /\ ~w5 THEN "say_5"
    ELSE IF ml <= WarnLast /\ ~w1 THEN "say_1"
    ELSE "none"

\* the countdown command an alive, window-open tick sends: the if / else-if chain
WarningDue(ml, w10, w5, w1) ==
    IF ml = WarnFirst /\ ~w10 THEN "say_10"
    ELSE IF ml = WarnSecond /\ ~w5 THEN "say_5"
    ELSE IF ml = WarnLast /\ ~w1 THEN "say_1"
    ELSE "none"

----------------------------------------------------------------------------
(* The supervised process *)

None == <<>>
Some(c) == <<c>>

NewChild(t) == [spawned |-> t, exited |-> FALSE, stdin |-> <<>>]

SendCommand(c, line) == [c EXCEPT !.stdin = Append(@, line)]

Running(p) == p # None /\ ~p[1].exited

\* child.try_wait(): Ok(None) while it runs, else Ok(Some(_)); Err(_) at any time
TryWaitResults(p) ==
    IF Running(p)
    THEN {"running"} \cup (IF wait_errors > 0 THEN {"error"} ELSE {})
    ELSE {"exited"}

IsAlive(p, r) == p # None /\ r = "running"

\* a handle that is dropped or replaced leaves its process running
Dropped(p) == IF Running(p) THEN 1 ELSE 0

KeepHandle(p) == p

TakeLeavesHandle(p) == p

\* server_process after server_process.take()
Take(p) == None

\* the handle after a tick that found the process not alive and the window closed
ClearHandle(p) == IF p # None THEN None ELSE p

----------------------------------------------------------------------------
(* Initial states *)

\* <<start_time, end_time, the time of day at which the supervisor is started>>
Scenarios ==
    { <<HM(8, 0), HM(22, 0), HMS(7, 59, 30)>>,
      <<HM(8, 0), HM(22, 0), HMS(21, 54, 40)>>,
      <<HM(22, 0), HM(0, 3), HMS(23, 58, 3)>>,
      <<HM(8, 0), HM(8, 0), HMS(7, 59, 30)>>,
      <<HM(0, 0), HM(0, 0), HMS(23, 59, 40)>> }

InitWith(scenarios, span, errors) ==
    /\ \E w \in scenarios : start_time = w[1] /\ end_time = w[2] /\ clock = w[3]
    /\ horizon = clock + span
    /\ pc = "loop"
    /\ server_process = None
    /\ child = None
    /\ warned_10_min = FALSE
    /\ warned_5_min = FALSE
    /\ warned_1_min = FALSE
    /\ crash_timestamps = <<>>
    /\ now = clock
    /\ is_running_time = FALSE
    /\ is_alive = FALSE
    /\ minutes_left = NoMinutes
    /\ events = <<"notify_started">>
    /\ orphans = 0
    /\ wait_errors = errors

Init == InitWith(Scenarios, Span, MaxTryWaitErrors)

----------------------------------------------------------------------------
(* One tick of the loop, by branch *)

TickTop(r) ==
    /\ pc = "loop"
    /\ clock < horizon
    /\ r \in TryWaitResults(server_process)
    /\ now' = clock
    /\ is_running_time' = IsRunningTime(CurrentTime(clock), start_time, end_time)
    /\ is_alive' = IsAlive(server_process, r)
    /\ wait_errors' = IF r = "error" THEN wait_errors - 1 ELSE wait_errors
    /\ UNCHANGED <<start_time, end_time, horizon>>

\* not alive, window open, three or more attempts retained: cooldown, then continue
TickCooldown(r) ==
    /\ TickTop(r)
    /\ ~is_alive' /\ is_running_time'
    /\ TooManyCrashes(Retain(crash_timestamps, clock))
    /\ crash_timestamps' = Retain(crash_timestamps, clock)
    /\ events' = <<"prune", "notify_watchdog", "sleep_cooldown">>
    /\ clock' = clock + CooldownSeconds
    /\ minutes_left' = NoMinutes
    /\ UNCHANGED <<pc, server_process, child, warned_10_min, warned_5_min,
                   warned_1_min, orphans>>

\* not alive, window open, fewer than three attempts retained: spawn
TickSpawn(r, ok) ==
    /\ TickTop(r)
    /\ ~is_alive' /\ is_running_time'
    /\ ~TooManyCrashes(Retain(crash_timestamps, clock))
    /\ crash_timestamps' = Record(Retain(crash_timestamps, clock), clock, ok)
    /\ IF ok
       THEN /\ server_process' = Some(NewChild(clock))
            /\ orphans' = orphans + Dropped(server_process)
            /\ events' = <<"prune", "notify_starting", "spawn_ok", "sleep_poll">>
       ELSE /\ events' = <<"prune", "notify_starting", "spawn_err", "sleep_poll">>
            /\ UNCHANGED <<server_process, orphans>>
    /\ warned_10_min' = ResetWarning(warned_10_min, ok)
    /\ warned_5_min' = ResetWarning(warned_5_min, ok)
    /\ warned_1_min' = ResetWarning(warned_1_min, ok)
    /\ clock' = clock + PollSeconds
    /\ minutes_left' = NoMinutes
    /\ UNCHANGED <<pc, child>>

\* not alive, window closed: drop whatever handle is held
TickClear(r) ==
    /\ TickTop(r)
    /\ ~is_alive' /\ ~is_running_time'
    /\ server_process' = ClearHandle(server_process)
    /\ orphans' = orphans + Dropped(server_process)
    /\ events' = IF server_process # None
                 THEN <<"drop_handle", "sleep_poll">>
                 ELSE <<"sleep_poll">>
    /\ clock' = clock + PollSeconds
    /\ minutes_left' = NoMinutes
    /\ UNCHANGED <<pc, child, warned_10_min, warned_5_min, warned_1_min,
                   crash_timestamps>>

\* alive, window closed: notify, take the handle, send "stop", block in wait()
TickStop(r) ==
    /\ TickTop(r)
    /\ is_alive' /\ ~is_running_time'
    /\ server_process' = Take(server_process)
    /\ child' = Some(SendCommand(server_process[1], "stop"))
    /\ events' = <<"notify_stopping", "cmd_stop", "wait">>
    /\ pc' = "wait"
    /\ minutes_left' = NoMinutes
    /\ UNCHANGED <<clock, warned_10_min, warned_5_min, warned_1_min,
                   crash_timestamps, orphans>>

\* alive, window open: at most one countdown command
TickAlive(r) ==
    /\ TickTop(r)
    /\ is_alive' /\ is_running_time'
    /\ minutes_left' = MinutesLeft(CurrentTime(clock), start_time, end_time)
    /\ IF WarningDue(minutes_left', warned_10_min, warned_5_min, warned_1_min) = "say_10"
       THEN /\ server_process' = Some(SendCommand(server_process[1], "say_10"))
            /\ warned_10_min' = TRUE
            /\ events' = <<"cmd_say_10", "sleep_poll">>
            /\ UNCHANGED <<warned_5_min, warned_1_min>>
       ELSE IF WarningDue(minutes_left', warned_10_min, warned_5_min, warned_1_min) = "say_5"
       THEN /\ server_process' = Some(SendCommand(server_process[1], "say_5"))
            /\ warned_5_min' = TRUE
            /\ events' = <<"cmd_say_5", "sleep_poll">>
            /\ UNCHANGED <<warned_10_min, warned_1_min>>
       ELSE IF WarningDue(minutes_left', warned_10_min, warned_5_min, warned_1_min) = "say_1"
       THEN /\ server_process' = Some(SendCommand(server_process[1], "say_1"))
            /\ warned_1_min' = TRUE
            /\ events' = <<"cmd_say_1", "sleep_poll">>
            /\ UNCHANGED <<warned_10_min, warned_5_min>>
       ELSE /\ events' = <<"sleep_poll">>
            /\ UNCHANGED <<server_process, warned_10_min, warned_5_min, warned_1_min>>
    /\ clock' = clock + PollSeconds
    /\ UNCHANGED <<pc, child, crash_timestamps, orphans>>

WaitReturnAfterTimeout(d) ==
    /\ pc = "wait"
    /\ child # None
    /\ child' = None
    /\ pc' = "loop"
    /\ events' = Append(events, "sleep_poll")
    /\ clock' = clock + d + PollSeconds
    /\ UNCHANGED <<start_time, end_time, horizon, server_process, warned_10_min,
                   warned_5_min, warned_1_min, crash_timestamps, now,
                   is_running_time, is_alive, minutes_left, orphans, wait_errors>>

\* stop_server's child.wait() returns once the process has exited; then the poll sleep
WaitReturn(d) ==
    /\ pc = "wait"
    /\ child # None /\ child[1].exited
    /\ child' = None
    /\ pc' = "loop"
    /\ events' = Append(events, "sleep_poll")
    /\ clock' = clock + d + PollSeconds
    /\ UNCHANGED <<start_time, end_time, horizon, server_process, warned_10_min,
                   warned_5_min, warned_1_min, crash_timestamps, now,
                   is_running_time, is_alive, minutes_left, orphans, wait_errors>>

----------------------------------------------------------------------------
(* The environment: the supervised process *)

\* the process held in server_process exits by itself (a crash)
ChildExit ==
    /\ pc = "loop"
    /\ clock < horizon
    /\ Running(server_process)
    /\ server_process' = Some([server_process[1] EXCEPT !.exited = TRUE])
    /\ UNCHANGED <<start_time, end_time, clock, horizon, pc, child, warned_10_min,
                   warned_5_min, warned_1_min, crash_timestamps, now,
                   is_running_time, is_alive, minutes_left, events, orphans,
                   wait_errors>>

\* the process that was sent "stop" exits
ChildStopped ==
    /\ pc = "wait"
    /\ Running(child)
    /\ child' = Some([child[1] EXCEPT !.exited = TRUE])
    /\ UNCHANGED <<start_time, end_time, clock, horizon, pc, server_process,
                   warned_10_min, warned_5_min, warned_1_min, crash_timestamps, now,
                   is_running_time, is_alive, minutes_left, events, orphans,
                   wait_errors>>

----------------------------------------------------------------------------

Cooldown == \E r \in {"running", "exited", "error"} : TickCooldown(r)
Spawn == \E r \in {"running", "exited", "error"} : \E ok \in BOOLEAN : TickSpawn(r, ok)
Clear == \E r \in {"running", "exited", "error"} : TickClear(r)
Stop == \E r \in {"running", "exited", "error"} : TickStop(r)
Alive == \E r \in {"running", "exited", "error"} : TickAlive(r)
Waited == \E d \in 0..MaxStopDelay : WaitReturn(d)

Tick == Cooldown \/ Spawn \/ Clear \/ Stop \/ Alive

Next ==
    \/ Cooldown
    \/ Spawn
    \/ Clear
    \/ Stop
    \/ Alive
    \/ Waited
    \/ ChildExit
    \/ ChildStopped

Spec == Init /\ [][Next]_vars

----------------------------------------------------------------------------
(* The first tick of the supervisor, for many windows and times of day *)

WindowTimes ==
    { HM(0, 0), HM(0, 1), HM(0, 5), HM(8, 0), HM(12, 0), HM(22, 0), HM(23, 59) }

TimesOfDay ==
    { (t + d) % Day : t \in WindowTimes, d \in {Day - 1, 0, 1} }
        \cup { HMS(3, 0, 0), HMS(15, 30, 30), HMS(23, 0, 59) }

WindowScenarios ==
    { <<s, e, t>> : s \in WindowTimes, e \in WindowTimes, t \in TimesOfDay }

InitWindow == InitWith(WindowScenarios, 1, 0)

NextWindow ==
    \/ Spawn
    \/ Clear

SpecWindow == InitWindow /\ [][NextWindow]_vars

----------------------------------------------------------------------------
(* The loop never stops by itself: a tick that can be taken is taken *)

FairScenarios ==
    { <<HM(8, 0), HM(22, 0), HMS(7, 59, 30)>>,
      <<HM(22, 0), HM(0, 3), HMS(23, 58, 3)>> }

InitFair == InitWith(FairScenarios, Span, 0)

FairSpec == InitFair /\ [][Next]_vars /\ WF_vars(Tick)

----------------------------------------------------------------------------
(* Runs in which the process never exits by itself, every spawn succeeds and *)
(* try_wait() never fails, from 11 minutes before the window end until after *)
(* the scheduled stop                                                        *)

AliveScenarios ==
    { <<HM(8, 0), HM(22, 0), HMS(21, 48, 35)>>,
      <<HM(22, 0), HM(8, 0), HMS(7, 48, 35)>>,
      <<HM(22, 0), HM(0, 7), HMS(23, 55, 35)>>,
      <<HM(22, 0), HM(0, 10), HMS(23, 58, 30)>>,
      <<HM(22, 0), HM(0, 10), HMS(23, 58, 35)>>,
      <<HM(22, 0), HM(0, 5), HMS(23, 53, 35)>>,
      <<HM(22, 0), HM(0, 1), HMS(23, 49, 35)>> }

InitAlive == InitWith(AliveScenarios, AliveSpan, 0)

SpawnOk == \E r \in {"running", "exited", "error"} : TickSpawn(r, TRUE)

NextAlive ==
    \/ SpawnOk
    \/ Clear
    \/ Stop
    \/ Alive
    \/ Waited
    \/ ChildStopped

SpecAlive == InitAlive /\ [][NextAlive]_vars

----------------------------------------------------------------------------
(* Properties *)

TickDone == events # <<"notify_started">>

\* a step that is one tick of the loop (up to its sleep, or up to the blocking wait)
TickStep == pc = "loop" /\ (clock' # clock \/ pc' = "wait")

Has(evs, e) == \E i \in 1..Len(evs) : evs[i] = e

SpawnAttempted(evs) == Has(evs, "spawn_ok") \/ Has(evs, "spawn_err")

Notified(evs) ==
    \E i \in 1..Len(evs) :
        evs[i] \in {"notify_started", "notify_starting", "notify_watchdog",
                    "notify_stopping"}

Commanded(evs) ==
    \E i \in 1..Len(evs) : evs[i] \in {"cmd_stop", "cmd_say_10", "cmd_say_5", "cmd_say_1"}

WarningsUnchanged ==
    /\ warned_10_min' = warned_10_min
    /\ warned_5_min' = warned_5_min
    /\ warned_1_min' = warned_1_min

\* C1: for a same-day window (start < end) the window test of a tick is true
\* exactly when start <= now < end: start inclusive, end exclusive.
C1_SameDayWindow ==
    (TickDone /\ start_time < end_time) =>
        (is_running_time <=>
            (start_time <= CurrentTime(now) /\ CurrentTime(now) < end_time))

C1_Witness ==
    /\ TickDone
    /\ start_time < end_time
    /\ CurrentTime(now) = end_time
    /\ ~is_running_time

\* C2: for an overnight window (start > end) the window test of a tick is true
\* exactly on [start, 24:00) and [00:00, end), and false on [end, start).
C2_OvernightWindow ==
    (TickDone /\ start_time > end_time) =>
        (is_running_time <=>
            (CurrentTime(now) >= start_time \/ CurrentTime(now) < end_time))

C2_Witness ==
    /\ TickDone
    /\ start_time > end_time
    /\ CurrentTime(now) < end_time
    /\ is_running_time

\* C3: a tick whose window test is false makes no spawn attempt; when the
\* process is not alive either, the tick sends no command and no notification,
\* leaves the ledger and the warning flags as they were, and ends with no handle.
C3_ClosedWindowNoSpawn ==
    [][ (TickStep /\ ~is_running_time') =>
            /\ ~SpawnAttempted(events')
            /\ ~is_alive' =>
                  /\ ~Notified(events')
                  /\ ~Commanded(events')
                  /\ crash_timestamps' = crash_timestamps
                  /\ WarningsUnchanged
                  /\ server_process' = None ]_vars

C3_Witness ==
    /\ ~is_alive
    /\ ~is_running_time
    /\ Has(events, "drop_handle")
    /\ server_process = None

SpawnEvents(ok) ==
    <<"prune", "notify_starting", IF ok THEN "spawn_ok" ELSE "spawn_err", "sleep_poll">>

CooldownEvents == <<"prune", "notify_watchdog", "sleep_cooldown">>

\* every entry of ts is an entry of old, and ts is no longer than old
NothingAppended(old, ts) ==
    /\ Len(ts) <= Len(old)
    /\ \A i \in 1..Len(ts) : \E j \in 1..Len(old) : old[j] = ts[i]

\* C4: a tick that finds the process not alive, the window open and fewer than
\* 3 entries in the pruned ledger notifies "starting", then makes one spawn
\* attempt, and appends the tick's now to the pruned ledger whether the spawn
\* succeeded or failed (one entry more than the pruned ledger held); no other
\* step appends to the ledger.
C4_OneRecordPerAttempt ==
    [][ LET pruned == Retain(crash_timestamps, clock)
            attempt == TickStep /\ ~is_alive' /\ is_running_time'
                          /\ Len(pruned) < CrashLimit
        IN  /\ attempt =>
                  /\ events' \in {SpawnEvents(TRUE), SpawnEvents(FALSE)}
                  /\ crash_timestamps' = Append(pruned, clock)
                  /\ Len(crash_timestamps') = Len(pruned) + 1
            /\ ~attempt => NothingAppended(crash_timestamps, crash_timestamps') ]_vars

C4_Witness ==
    /\ events = SpawnEvents(FALSE)
    /\ Len(crash_timestamps) = 2
    /\ crash_timestamps[2] = now

\* C5: a tick that finds the process not alive, the window open and 3 or more
\* entries in the pruned ledger makes no spawn attempt, sends the crash-loop
\* notification once, sleeps 60 s and goes back to the top of the loop (no poll
\* sleep); ledger, handle and warning flags are as before the tick.
C5_CrashLoopBreaker ==
    [][ (TickStep /\ ~is_alive' /\ is_running_time'
            /\ Len(Retain(crash_timestamps, clock)) >= CrashLimit) =>
            /\ events' = CooldownEvents
            /\ clock' = clock + CooldownSeconds
            /\ pc' = "loop"
            /\ crash_timestamps' = crash_timestamps
            /\ server_process' = server_process
            /\ WarningsUnchanged ]_vars

C5_Witness ==
    /\ events = CooldownEvents
    /\ Len(crash_timestamps) = CrashLimit
    /\ server_process # None

\* C6: while the ledger holds three timestamps, a tick that finds the process
\* not alive and the window open less than 5 minutes after the earliest of
\* them enters cooldown, and no spawn attempt is made earlier than 5 minutes
\* after the earliest of them.
C6_NoFourthSpawnWithinFiveMinutes ==
    [][ (TickStep /\ Len(crash_timestamps) >= CrashLimit) =>
            /\ (~is_alive' /\ is_running_time'
                  /\ clock - crash_timestamps[1] < RetainMinutes * 60)
                    => events' = CooldownEvents
            /\ SpawnAttempted(events')
                    => clock - crash_timestamps[1] >= RetainMinutes * 60 ]_vars

\* three attempts within 2 minutes, and the tick after them went into cooldown
C6_Witness ==
    /\ events = CooldownEvents
    /\ Len(crash_timestamps) = CrashLimit
    /\ crash_timestamps[3] - crash_timestamps[1] <= 120
    /\ crash_timestamps[3] - crash_timestamps[1] > 2 * PollSeconds

\* C8: after the pruning of a tick that compares the ledger count with the
\* threshold, no retained timestamp is more than 5 minutes (300 s) old.
C8_NoEntryOlderThanFiveMinutes ==
    Has(events, "prune") =>
        \A i \in 1..Len(crash_timestamps) :
            now - crash_timestamps[i] <= RetainMinutes * 60

\* the countdown lines written to a process's stdin
Countdowns(p) ==
    IF p = None
    THEN <<>>
    ELSE SelectSeq(p[1].stdin, LAMBDA l : l \in {"say_10", "say_5", "say_1"})

NoRepeat(q) == \A i, j \in 1..Len(q) : q[i] = q[j] => i = j

Stays(flag, flagAfter) == flag => flagAfter

\* C10: the three warning flags are false after every tick whose spawn
\* succeeded; in every other step a flag that is true stays true; and no
\* countdown command is written twice to the process of one successful spawn.
C10_FlagsScopedToRun ==
    [][ /\ (TickStep /\ Has(events', "spawn_ok")) =>
              (~warned_10_min' /\ ~warned_5_min' /\ ~warned_1_min')
        /\ ~(TickStep /\ Has(events', "spawn_ok")) =>
              /\ Stays(warned_10_min, warned_10_min')
              /\ Stays(warned_5_min, warned_5_min')
              /\ Stays(warned_1_min, warned_1_min')
        /\ NoRepeat(Countdowns(server_process'))
        /\ NoRepeat(Countdowns(child')) ]_vars

\* a failed spawn after a warning was sent: the flag is still set
C10_Witness ==
    /\ events = SpawnEvents(FALSE)
    /\ warned_5_min
    /\ ~warned_1_min

\* C7: a cooldown is not terminal.  After a cooldown tick with the process
\* gone, ticks keep coming until either a new spawn attempt is made or a tick
\* finds the window closed (stated for cooldowns that leave the explored span
\* the 5 minutes the ledger may need to age out).
CooldownPending ==
    /\ events = CooldownEvents
    /\ ~Running(server_process)
    /\ clock + RetainMinutes * 60 < horizon

C7_CooldownEnds ==
    CooldownPending ~> (SpawnAttempted(events) \/ (TickDone /\ ~is_running_time))

C7_Witness ==
    /\ CooldownPending
    /\ Len(crash_timestamps) = CrashLimit

\* seconds from time t to the next window end
SecondsToEnd(t) == (end_time + Day - CurrentTime(t)) % Day

\* C9: a process that was spawned at least 11 minutes before the window end and
\* is alive at every 10 s tick until the scheduled stop has received exactly the
\* three countdown commands, 10 then 5 then 1 minute, before the stop command.
C9_ThreeCountdowns ==
    (pc = "wait" /\ child # None /\ SecondsToEnd(child[1].spawned) >= 11 * 60) =>
        child[1].stdin = <<"say_10", "say_5", "say_1", "stop">>

StopEvents == <<"notify_stopping", "cmd_stop", "wait">>

LoopStateUnchanged ==
    /\ server_process' = server_process
    /\ crash_timestamps' = crash_timestamps
    /\ WarningsUnchanged
    /\ orphans' = orphans

C12_MinutesLeftIsRemainingTime ==
    minutes_left # NoMinutes => minutes_left = SecondsToEnd(now) \div 60

RunningProcesses ==
    orphans + (IF Running(server_process) THEN 1 ELSE 0)
            + (IF Running(child) THEN 1 ELSE 0)

\* C14: at most one process spawned by the supervisor is running at any time.
C14_AtMostOneRunning == RunningProcesses <= 1

Count(evs, kinds) == Cardinality({i \in 1..Len(evs) : evs[i] \in kinds})

SpawnKinds == {"spawn_ok", "spawn_err"}
StopKinds == {"cmd_stop"}
WarnKinds == {"cmd_say_10", "cmd_say_5", "cmd_say_1"}
CooldownKinds == {"sleep_cooldown"}

ExitedHandle(p) == p # None /\ p[1].exited

\* C16: a tick that starts with the handle of an exited process ends without
\* the handle of an exited process.
C16_ExitedHandleCleared ==
    [][ (TickStep /\ ExitedHandle(server_process)) => ~ExitedHandle(server_process') ]_vars

C19_DegenerateWindowNeverOpen ==
    start_time = end_time =>
        /\ ~IsRunningTime(CurrentTime(clock), start_time, end_time)
        /\ \A t \in TimesOfDay : ~IsRunningTime(t, start_time, end_time)
        /\ TickDone => ~is_running_time
        /\ ~SpawnAttempted(events)
        /\ Count(events, WarnKinds) = 0
        /\ ~Has(events, "notify_starting")
        /\ server_process = None
        /\ crash_timestamps = <<>>

\* a tick taken at the very time of day that is both start and end
C19_Witness ==
    /\ start_time = end_time
    /\ TickDone
    /\ CurrentTime(now) = start_time
    /\ events = <<"sleep_poll">>

\* C20: the ledger never holds more than CrashLimit timestamps, a tick appends
\* to it only when the pruned ledger holds fewer than CrashLimit, and its
\* entries are in non-decreasing time order.
C20_LedgerBounded ==
    /\ Len(crash_timestamps) <= CrashLimit
    /\ \A i \in 1..Len(crash_timestamps) - 1 :
           crash_timestamps[i] <= crash_timestamps[i + 1]
    /\ SpawnAttempted(events) =>
           /\ crash_timestamps # <<>>
           /\ crash_timestamps[Len(crash_timestamps)] = now
           /\ Len(Retain(SubSeq(crash_timestamps, 1, Len(crash_timestamps) - 1), now))
                  < CrashLimit

\* a full ledger
C20_Witness ==
    /\ Len(crash_timestamps) = CrashLimit
    /\ SpawnAttempted(events)

====
